---- MODULE Spec2Model ----
(***************************************************************************)
(* Model of scripts/transcribe_faster_whisper.py: one process invocation   *)
(* of main().  The command line is parsed, the device is resolved, the     *)
(* model is loaded, transcribe() is called, the lazy segment generator is  *)
(* consumed, and the joined text is written to standard output.            *)
(*                                                                         *)
(* Strings the script computes with (segment texts, the output) are        *)
(* sequences of one-character strings, so that strip() and join() are      *)
(* computed character by character.  Floats are held in tenths.            *)
(* faster_whisper and the audio file are the environment: whether a call   *)
(* raises and which segments the generator yields are nondeterministic.    *)
(***************************************************************************)
EXTENDS Integers, Sequences, FiniteSets

VARIABLES
    argv,            \* sys.argv[1:], one field per option (Absent = not given)
    pc,              \* position in main()
    args,            \* the Namespace returned by ap.parse_args()
    device,          \* local variable device (lines 27-29)
    loaderCalls,     \* calls made to WhisperModel(...)
    transcribeCalls, \* calls made to model.transcribe(...)
    info,            \* the _info record returned by transcribe (unused)
    yielded,         \* segments the generator has yielded so far
    out,             \* local list out
    stdout,          \* the strings written to sys.stdout, in order
    exitCode,        \* process exit status, None while running
    envLog,          \* what the environment did: call outcomes and yielded texts
    prev             \* what the previous invocation of the script did (None if none)

vars == <<argv, pc, args, device, loaderCalls, transcribeCalls, info, yielded,
          out, stdout, exitCode, envLog, prev>>

None == "None"
Absent == "Absent"

(***************************************************************************)
(* Bounds of the model.                                                    *)
(***************************************************************************)
MaxLen == 2      \* longest segment text, in characters
MaxSegs == 3     \* most segments one generator yields
MaxOpts == 2     \* most options given on one command line

(***************************************************************************)
(* Strings.                                                                *)
(***************************************************************************)
\* what str.strip() with no argument removes (str.isspace)
Whitespace == {" ", "\t", "\n", "\r"}

Alphabet == {" ", "a"}

RECURSIVE StringsOfLen(_)
StringsOfLen(n) ==
    IF n = 0 THEN {<<>>}
    ELSE {Append(s, c) : s \in StringsOfLen(n - 1), c \in Alphabet}

Strings == UNION {StringsOfLen(n) : n \in 0..MaxLen}

RECURSIVE LStrip(_)
LStrip(s) ==
    IF s # <<>> /\ Head(s) \in Whitespace THEN LStrip(Tail(s)) ELSE s

RECURSIVE RStrip(_)
RStrip(s) ==
    IF s # <<>> /\ s[Len(s)] \in Whitespace
    THEN RStrip(SubSeq(s, 1, Len(s) - 1))
    ELSE s

\* str.strip()
Strip(s) == RStrip(LStrip(s))

\* sep.join(list)
RECURSIVE Join(_, _)
Join(sep, list) ==
    IF list = <<>> THEN <<>>
    ELSE IF Len(list) = 1 THEN list[1]
    ELSE list[1] \o sep \o Join(sep, Tail(list))

(***************************************************************************)
(* Segments.  seg.text is a string or None.                                *)
(***************************************************************************)
NoText == [none |-> TRUE, chars |-> <<>>]
Str(s) == [none |-> FALSE, chars |-> s]

Texts == {NoText} \cup {Str(s) : s \in Strings}

\* seg.start values (seconds); the script never reads them
Starts == {0, 1}

\* (seg.text or "")
OrEmpty(t) == IF t.none THEN <<>> ELSE t.chars

(***************************************************************************)
(* Command line.  A raw command line has one field per option, holding the *)
(* string given for it or Absent; vad_filter is a flag, present or not.    *)
(***************************************************************************)
DefaultBeamSize == 1
DefaultNoSpeechThreshold == 6
DefaultLogProbThreshold == -10
DefaultCompressionRatioThreshold == 24

DeviceChoices == {"cpu", "cuda", "auto"}

\* type=int
ParseInt(s) ==
    CASE s = "5" -> <<5>>
      [] s = "1" -> <<1>>
      [] OTHER -> <<>>

\* type=float, in tenths
ParseFloat(s) ==
    CASE s = "0.5" -> <<5>>
      [] s = "-0.5" -> <<0 - 5>>
      [] s = "2.0" -> <<20>>
      [] s = "5" -> <<50>>
      [] s = "1" -> <<10>>
      [] OTHER -> <<>>

ArgvDomain ==
    [model : {Absent, "tiny"},
     device : {Absent, "cpu", "cuda", "auto", "tpu"},
     compute_type : {Absent, "float16"},
     language : {Absent, "en"},
     beam_size : {Absent, "5", "x"},
     vad_filter : BOOLEAN,
     no_speech_threshold : {Absent, "0.5", "x"},
     log_prob_threshold : {Absent, "-0.5"},
     compression_ratio_threshold : {Absent, "2.0"},
     prompt : {Absent, "deploy"},
     file : {Absent, "a.wav"}]

OptionNames ==
    {"model", "device", "compute_type", "language", "beam_size",
     "no_speech_threshold", "log_prob_threshold",
     "compression_ratio_threshold", "prompt"}

Given(a) ==
    Cardinality({o \in OptionNames : a[o] # Absent})
        + (IF a.vad_filter THEN 1 ELSE 0)

Argvs == {a \in ArgvDomain : Given(a) <= MaxOpts}

\* the command line with no option, only the file
PlainArgv ==
    [model |-> Absent, device |-> Absent, compute_type |-> Absent,
     language |-> Absent, beam_size |-> Absent, vad_filter |-> FALSE,
     no_speech_threshold |-> Absent, log_prob_threshold |-> Absent,
     compression_ratio_threshold |-> Absent, prompt |-> Absent,
     file |-> "a.wav"]

Default(raw, dflt) == IF raw = Absent THEN dflt ELSE raw

\* action="store_true", default=True: the flag stores True, its absence
\* leaves the default
VadFilterStoreFalseDefault(flag) == flag
VadFilter(flag) == IF flag THEN TRUE ELSE TRUE

\* whether ap.parse_args() exits with a usage error
ArgError(a) ==
    \/ a.file = Absent
    \/ a.device \notin DeviceChoices \cup {Absent}
    \/ a.beam_size # Absent /\ ParseInt(a.beam_size) = <<>>
    \/ a.no_speech_threshold # Absent /\ ParseFloat(a.no_speech_threshold) = <<>>
    \/ a.log_prob_threshold # Absent /\ ParseFloat(a.log_prob_threshold) = <<>>
    \/ a.compression_ratio_threshold # Absent
         /\ ParseFloat(a.compression_ratio_threshold) = <<>>

\* the Namespace ap.parse_args() returns when it returns
Namespace(a) ==
    [model |-> Default(a.model, "small"),
     device |-> Default(a.device, "cpu"),
     compute_type |-> Default(a.compute_type, "int8"),
     language |-> Default(a.language, None),
     beam_size |-> IF a.beam_size = Absent THEN DefaultBeamSize
                   ELSE ParseInt(a.beam_size)[1],
     vad_filter |-> VadFilter(a.vad_filter),
     no_speech_threshold |->
         IF a.no_speech_threshold = Absent THEN DefaultNoSpeechThreshold
         ELSE ParseFloat(a.no_speech_threshold)[1],
     log_prob_threshold |->
         IF a.log_prob_threshold = Absent THEN DefaultLogProbThreshold
         ELSE ParseFloat(a.log_prob_threshold)[1],
     compression_ratio_threshold |->
         IF a.compression_ratio_threshold = Absent
         THEN DefaultCompressionRatioThreshold
         ELSE ParseFloat(a.compression_ratio_threshold)[1],
     prompt |-> Default(a.prompt, None),
     file |-> a.file]

\* lines 27-29
ResolveDeviceKeepAuto(d) == d
ResolveDevice(d) == IF d = "auto" THEN "cuda" ELSE d

\* WhisperModel(args.model, device=device, compute_type=args.compute_type)
LoaderArgs(ns, dev) ==
    [model |-> ns.model, device |-> dev, compute_type |-> ns.compute_type]

\* model.transcribe(args.file, language=..., ..., initial_prompt=args.prompt)
TranscribeArgsEnglishDefault(ns) ==
    [file |-> ns.file,
     language |-> IF ns.language = None THEN "en" ELSE ns.language,
     beam_size |-> ns.beam_size,
     vad_filter |-> ns.vad_filter,
     no_speech_threshold |-> ns.no_speech_threshold,
     log_prob_threshold |-> ns.log_prob_threshold,
     compression_ratio_threshold |-> ns.compression_ratio_threshold,
     initial_prompt |-> ns.prompt]
TranscribeArgs(ns) ==
    [file |-> ns.file,
     language |-> ns.language,
     beam_size |-> ns.beam_size,
     vad_filter |-> ns.vad_filter,
     no_speech_threshold |-> ns.no_speech_threshold,
     log_prob_threshold |-> ns.log_prob_threshold,
     compression_ratio_threshold |-> ns.compression_ratio_threshold,
     initial_prompt |-> ns.prompt]

(***************************************************************************)
(* Output assembly, lines 44-50.                                           *)
(***************************************************************************)
Digit(n) == IF n = 0 THEN "0" ELSE "1"

\* line 46: text = (seg.text or "").strip()
SegTextUnstripped(seg) == OrEmpty(seg.text)
SegTextTimestamped(seg) ==
    IF Strip(OrEmpty(seg.text)) = <<>> THEN <<>>
    ELSE <<Digit(seg.start), ":">> \o Strip(OrEmpty(seg.text))
SegText(seg) == Strip(OrEmpty(seg.text))

\* lines 47-48: if text: out.append(text)
CollectPrepend(list, text) == IF text # <<>> THEN <<text>> \o list ELSE list
CollectAll(list, text) == Append(list, text)
Collect(list, text) == IF text # <<>> THEN Append(list, text) ELSE list

\* line 50: " ".join(out).strip()
OutputTextWithNewline(list) == Join(<<" ">>, list) \o <<"\n">>
OutputText(list) == Strip(Join(<<" ">>, list))

(***************************************************************************)
(* The environment's record of one run.                                    *)
(***************************************************************************)
Event(e) == [ev |-> e, text |-> NoText]
Yield(t) == [ev |-> "yield", text |-> t]

Infos == {"en", "ru"}

(***************************************************************************)
(* State at process start.                                                 *)
(***************************************************************************)
Fresh ==
    /\ pc = "start"
    /\ args = <<>>
    /\ device = None
    /\ loaderCalls = <<>>
    /\ transcribeCalls = <<>>
    /\ info = None
    /\ yielded = <<>>
    /\ out = <<>>
    /\ stdout = <<>>
    /\ exitCode = {}
    /\ envLog = <<>>

InitWith(A) ==
    /\ argv \in A
    /\ Fresh
    /\ prev = <<>>

\* an uncaught exception ends the process: traceback on stderr, status 1
UncaughtFlushesOut ==
    /\ pc' = "exited"
    /\ exitCode' = {1}
    /\ stdout' = Append(stdout, OutputText(out))
Uncaught ==
    /\ pc' = "exited"
    /\ exitCode' = {1}
    /\ UNCHANGED stdout

(***************************************************************************)
(* The steps of main().                                                    *)
(***************************************************************************)
\* line 25: args = ap.parse_args(); a usage error exits with status 2,
\* the message going to stderr
ParseArgs ==
    /\ pc = "start"
    /\ IF ArgError(argv)
       THEN /\ pc' = "exited"
            /\ exitCode' = {2}
            /\ UNCHANGED args
       ELSE /\ pc' = "parsed"
            /\ args' = <<Namespace(argv)>>
            /\ UNCHANGED exitCode
    /\ UNCHANGED <<argv, device, loaderCalls, transcribeCalls, info, yielded,
                   out, stdout, envLog, prev>>

\* lines 27-29
ResolveDev ==
    /\ pc = "parsed"
    /\ device' = ResolveDevice(args[1].device)
    /\ pc' = "resolved"
    /\ UNCHANGED <<argv, args, loaderCalls, transcribeCalls, info, yielded,
                   out, stdout, exitCode, envLog, prev>>

\* line 31, the constructor returns
LoadModel ==
    /\ pc = "resolved"
    /\ loaderCalls' = Append(loaderCalls, LoaderArgs(args[1], device))
    /\ envLog' = Append(envLog, Event("load_ok"))
    /\ pc' = "loaded"
    /\ UNCHANGED <<argv, args, device, transcribeCalls, info, yielded, out,
                   stdout, exitCode, prev>>

\* line 31, the constructor raises (no such device, no weights, ...)
LoadModelRaises ==
    /\ pc = "resolved"
    /\ loaderCalls' = Append(loaderCalls, LoaderArgs(args[1], device))
    /\ envLog' = Append(envLog, Event("load_raise"))
    /\ Uncaught
    /\ UNCHANGED <<argv, args, device, transcribeCalls, info, yielded, out,
                   prev>>

\* lines 33-44, transcribe returns the generator and the info record;
\* out = []
Transcribe(i) ==
    /\ pc = "loaded"
    /\ transcribeCalls' = Append(transcribeCalls, TranscribeArgs(args[1]))
    /\ envLog' = Append(envLog, Event("transcribe_ok"))
    /\ info' = i
    /\ out' = <<>>
    /\ pc' = "iterating"
    /\ UNCHANGED <<argv, args, device, loaderCalls, yielded, stdout,
                   exitCode, prev>>

\* lines 33-42, transcribe raises (missing or unreadable file, ...)
TranscribeRaises ==
    /\ pc = "loaded"
    /\ transcribeCalls' = Append(transcribeCalls, TranscribeArgs(args[1]))
    /\ envLog' = Append(envLog, Event("transcribe_raise"))
    /\ Uncaught
    /\ UNCHANGED <<argv, args, device, loaderCalls, info, yielded, out, prev>>

\* lines 45-48, the generator yields seg and the loop body runs
LoopBodyStreaming(seg) ==
    /\ pc = "iterating"
    /\ Len(yielded) < MaxSegs
    /\ yielded' = Append(yielded, seg)
    /\ envLog' = Append(envLog, Yield(seg.text))
    /\ out' = Collect(out, SegText(seg))
    /\ stdout' = IF SegText(seg) # <<>> THEN Append(stdout, SegText(seg))
                 ELSE stdout
    /\ UNCHANGED <<argv, pc, args, device, loaderCalls, transcribeCalls, info,
                   exitCode, prev>>
LoopBody(seg) ==
    /\ pc = "iterating"
    /\ Len(yielded) < MaxSegs
    /\ yielded' = Append(yielded, seg)
    /\ envLog' = Append(envLog, Yield(seg.text))
    /\ out' = Collect(out, SegText(seg))
    /\ UNCHANGED <<argv, pc, args, device, loaderCalls, transcribeCalls, info,
                   stdout, exitCode, prev>>

\* line 45, the generator raises while decoding the next segment
IterRaises ==
    /\ pc = "iterating"
    /\ envLog' = Append(envLog, Event("iter_raise"))
    /\ Uncaught
    /\ UNCHANGED <<argv, args, device, loaderCalls, transcribeCalls, info,
                   yielded, out, prev>>

\* line 45 the generator is exhausted; line 50; main returns, status 0
WriteOutput ==
    /\ pc = "iterating"
    /\ envLog' = Append(envLog, Event("stop"))
    /\ stdout' = Append(stdout, OutputText(out))
    /\ pc' = "exited"
    /\ exitCode' = {0}
    /\ UNCHANGED <<argv, args, device, loaderCalls, transcribeCalls, info,
                   yielded, out, prev>>

\* what an invocation leaves behind for an observer: what it was given,
\* what it asked of the library, what the library did, what it printed
Summary ==
    [argv |-> argv, loaderCalls |-> loaderCalls,
     transcribeCalls |-> transcribeCalls, envLog |-> envLog, info |-> info,
     stdout |-> stdout, exitCode |-> exitCode]

\* lines 53-54: the script is invoked again, a new process
Restart(A) ==
    /\ pc = "exited"
    /\ prev' = <<Summary>>
    /\ argv' \in A
    /\ pc' = "start"
    /\ args' = <<>>
    /\ device' = None
    /\ loaderCalls' = <<>>
    /\ transcribeCalls' = <<>>
    /\ info' = None
    /\ yielded' = <<>>
    /\ out' = <<>>
    /\ stdout' = <<>>
    /\ exitCode' = {}
    /\ envLog' = <<>>

Step(infos, segs) ==
    \/ ParseArgs
    \/ ResolveDev
    \/ LoadModel
    \/ LoadModelRaises
    \/ \E i \in infos : Transcribe(i)
    \/ TranscribeRaises
    \/ \E seg \in segs : LoopBody(seg)
    \/ IterRaises
    \/ WriteOutput

(***************************************************************************)
(* Spec: one run on a command line without options, every segment text.    *)
(***************************************************************************)
NoFileArgv == [PlainArgv EXCEPT !.file = Absent]
OutputArgvs == {PlainArgv, NoFileArgv}
OutputSegs == [text : Texts, start : {0}]

Init == InitWith(OutputArgvs)
Next == Step({"en"}, OutputSegs)
Spec == Init /\ [][Next]_vars

(***************************************************************************)
(* SpecConfig: one run on every command line of at most MaxOpts options.   *)
(***************************************************************************)
ConfigSegs == [text : {NoText, Str(<<" ">>), Str(<<"a", " ">>)}, start : {0}]

InitConfig == InitWith(Argvs)
NextConfig == Step({"en"}, ConfigSegs)
SpecConfig == InitConfig /\ [][NextConfig]_vars

(***************************************************************************)
(* SpecRuns: the script invoked again and again.                           *)
(***************************************************************************)
RunsArgvs ==
    {[PlainArgv EXCEPT !.device = "cpu"]}
        \cup {[PlainArgv EXCEPT !.device = d, !.language = l] :
                  d \in {"cuda", "auto"}, l \in {Absent, "en"}}
RunsSegs ==
    {[text |-> Str(<<" ">>), start |-> 0]}
        \cup [text : {Str(<<"a", " ">>)}, start : Starts]

InitRuns == InitWith(RunsArgvs)
NextRuns == Step(Infos, RunsSegs) \/ Restart(RunsArgvs)
SpecRuns == InitRuns /\ [][NextRuns]_vars

(***************************************************************************)
(* Vocabulary of the properties, defined without strip() and join().       *)
(***************************************************************************)
Last(q) == q[Len(q)]

Visible(s) == {i \in 1..Len(s) : s[i] \notin Whitespace}

\* the text has a character that is not whitespace
HasVisible(t) == ~t.none /\ Visible(t.chars) # {}

\* s from its first to its last character that is not whitespace
Trim(s) ==
    IF Visible(s) = {} THEN <<>>
    ELSE LET lo == CHOOSE i \in Visible(s) : \A j \in Visible(s) : i <= j
             hi == CHOOSE i \in Visible(s) : \A j \in Visible(s) : j <= i
         IN  SubSeq(s, lo, hi)

\* the trimmed texts of the segments of ys that have a visible character,
\* in the order of ys
RECURSIVE Retained(_)
Retained(ys) ==
    IF ys = <<>> THEN <<>>
    ELSE IF HasVisible(Head(ys).text)
         THEN <<Trim(Head(ys).text.chars)>> \o Retained(Tail(ys))
         ELSE Retained(Tail(ys))

NoEdgeWhitespace(s) ==
    s = <<>> \/ (s[1] \notin Whitespace /\ s[Len(s)] \notin Whitespace)

RECURSIVE Concat(_)
Concat(writes) ==
    IF writes = <<>> THEN <<>> ELSE Head(writes) \o Concat(Tail(writes))

\* where the i-th of the texts K starts in K laid out with one separator
\* character between neighbours (0-based)
RECURSIVE Offset(_, _)
Offset(K, i) == IF i = 1 THEN 0 ELSE Offset(K, i - 1) + Len(K[i - 1]) + 1

LaidOutWithSingleSpaces(o, K) ==
    /\ Len(o) = IF K = <<>> THEN 0 ELSE Offset(K, Len(K)) + Len(K[Len(K)])
    /\ \A i \in 1..Len(K) :
           SubSeq(o, Offset(K, i) + 1, Offset(K, i) + Len(K[i])) = K[i]
    /\ \A i \in 2..Len(K) : o[Offset(K, i)] = " "

Succeeded == pc = "exited" /\ exitCode = {0}

RaiseEvents == {"load_raise", "transcribe_raise", "iter_raise"}

\* the run ended in a failure of a step before the write
Failed ==
    /\ pc = "exited"
    /\ \/ ArgError(argv)
       \/ envLog # <<>> /\ Last(envLog).ev \in RaiseEvents

(***************************************************************************)
(* C1: a segment contributes to the output if and only if its text has a   *)
(* character that is not whitespace; segments whose text is empty,         *)
(* whitespace-only or None contribute nothing.                             *)
(***************************************************************************)
C1_SegmentContributesIffNonBlank ==
    /\ Len(out) = Len(Retained(yielded))
    /\ \A k \in 1..Len(out) : out[k] # <<>> /\ Visible(out[k]) # {}
    /\ Succeeded =>
           /\ Len(stdout) = 1
           /\ Cardinality(Visible(stdout[1]))
                  = Cardinality(UNION {{<<i, j>> : j \in Visible(yielded[i].text.chars)} :
                                          i \in 1..Len(yielded)})

C1_Witness ==
    /\ Succeeded
    /\ yielded = <<[text |-> Str(<<" ", " ">>), start |-> 0],
                   [text |-> Str(<<"a">>), start |-> 0],
                   [text |-> NoText, start |-> 0]>>
    /\ stdout = << <<"a">> >>

(***************************************************************************)
(* C2: whatever the segments, what is written to standard output has no    *)
(* leading and no trailing whitespace.                                     *)
(***************************************************************************)
C2_OutputHasNoEdgeWhitespace == NoEdgeWhitespace(Concat(stdout))

C2_Witness ==
    /\ Succeeded
    /\ Len(yielded) = 2
    /\ \A i \in 1..2 : yielded[i].text \in {Str(<<" ">>), Str(<<" ", " ">>)}
    /\ stdout = << <<>> >>

(***************************************************************************)
(* C3: the retained texts appear in the output in the order the generator  *)
(* yielded them, with exactly one space between neighbours and nothing     *)
(* else added.                                                             *)
(***************************************************************************)
C3_RetainedInOrderSingleSpace ==
    Succeeded =>
        /\ Len(stdout) = 1
        /\ LaidOutWithSingleSpaces(stdout[1], Retained(yielded))

C3_Witness ==
    /\ Succeeded
    /\ yielded = <<[text |-> Str(<<" ", "a">>), start |-> 0],
                   [text |-> Str(<<"a", "a">>), start |-> 0]>>
    /\ stdout = << <<"a", " ", "a", "a">> >>

(***************************************************************************)
(* C10: the final strip never changes the joined string: the space-join    *)
(* of the retained texts is already free of leading and trailing           *)
(* whitespace.                                                             *)
(***************************************************************************)
C10_FinalStripIsNoOp == Strip(Join(<<" ">>, out)) = Join(<<" ">>, out)

C10_Witness ==
    /\ Succeeded
    /\ Len(out) = 2
    /\ \E i \in 1..Len(yielded) :
           /\ HasVisible(yielded[i].text)
           /\ yielded[i].text.chars[1] \in Whitespace
    /\ \E i \in 1..Len(yielded) : ~HasVisible(yielded[i].text)

(***************************************************************************)
(* C4: if a step before the write fails (argument parsing, model load,     *)
(* the transcription call, or the generator while it is iterated, even     *)
(* after segments were consumed), the process ends with a non-zero status  *)
(* and nothing has been written to standard output; nothing is retried.    *)
(***************************************************************************)
C4_FailureWritesNothing ==
    Failed =>
        /\ exitCode # {}
        /\ 0 \notin exitCode
        /\ stdout = <<>>
        /\ Len(loaderCalls) <= 1
        /\ Len(transcribeCalls) <= 1
        /\ \A i \in 1..Len(envLog) - 1 : envLog[i].ev \notin RaiseEvents

C4_Witness ==
    /\ Failed
    /\ envLog # <<>>
    /\ Last(envLog).ev = "iter_raise"
    /\ Len(out) = 2

(***************************************************************************)
(* C6: the vad_filter value passed to transcribe is true in every run,     *)
(* whether or not --vad_filter is on the command line.                     *)
(***************************************************************************)
C6_VadFilterAlwaysTrue ==
    \A i \in 1..Len(transcribeCalls) : transcribeCalls[i].vad_filter = TRUE

C6_Witness ==
    /\ argv.vad_filter
    /\ transcribeCalls # <<>>
    /\ Succeeded

(***************************************************************************)
(* C7: when --language is omitted None is passed to transcribe, when it    *)
(* is given its value is passed unchanged; every parsed option other than  *)
(* device reaches the loader or transcribe with its parsed value, and the  *)
(* parsed values do not change after parsing.                              *)
(***************************************************************************)
C7_OptionsPassedUnchanged ==
    /\ \A i \in 1..Len(loaderCalls) :
           /\ loaderCalls[i].model = args[1].model
           /\ loaderCalls[i].compute_type = args[1].compute_type
    /\ \A i \in 1..Len(transcribeCalls) :
           LET c == transcribeCalls[i] IN
           /\ c.file = args[1].file
           /\ c.language = args[1].language
           /\ c.language = IF argv.language = Absent THEN None ELSE argv.language
           /\ c.beam_size = args[1].beam_size
           /\ c.no_speech_threshold = args[1].no_speech_threshold
           /\ c.log_prob_threshold = args[1].log_prob_threshold
           /\ c.compression_ratio_threshold = args[1].compression_ratio_threshold
           /\ c.initial_prompt = args[1].prompt
    /\ args # <<>> =>
           /\ args[1].language = IF argv.language = Absent THEN None ELSE argv.language
           /\ args[1].file = argv.file
           /\ args[1].prompt = IF argv.prompt = Absent THEN None ELSE argv.prompt
           /\ argv.beam_size = "5" => args[1].beam_size = 5
           /\ argv.model # Absent => args[1].model = argv.model
           /\ argv.compute_type # Absent => args[1].compute_type = argv.compute_type

C7_Witness ==
    /\ argv.language = Absent
    /\ Succeeded
    /\ transcribeCalls # <<>>
    /\ transcribeCalls[1].language = None
    /\ argv.beam_size = "5"

CudaLike == {"auto", "cuda"}

C5_AutoEquivalentToCuda ==
    /\ \A i \in 1..Len(loaderCalls) :
           /\ loaderCalls[i].device # "auto"
           /\ argv.device \in CudaLike => loaderCalls[i].device = "cuda"
           /\ argv.device = "cpu" => loaderCalls[i].device = "cpu"
    /\ (/\ prev # <<>>
        /\ pc = "exited"
        /\ prev[1].argv.device \in CudaLike
        /\ argv.device \in CudaLike
        /\ [prev[1].argv EXCEPT !.device = "cuda"] = [argv EXCEPT !.device = "cuda"]
        /\ prev[1].envLog = envLog)
       => /\ prev[1].loaderCalls = loaderCalls
          /\ prev[1].transcribeCalls = transcribeCalls
          /\ prev[1].stdout = stdout
          /\ prev[1].exitCode = exitCode

C5_Witness ==
    /\ prev # <<>>
    /\ Succeeded
    /\ prev[1].argv.device = "auto"
    /\ argv.device = "cuda"
    /\ prev[1].argv.language = "en"
    /\ argv.language = "en"
    /\ prev[1].envLog = envLog
    /\ stdout = << <<"a">> >>

(***************************************************************************)
(* C8: two runs given the same command line, for which the library yields  *)
(* the same sequence of segment texts (ended the same way), write the      *)
(* same output and exit with the same status, whatever the info record     *)
(* and the timestamps of the segments were.                                *)
(***************************************************************************)
C8_Deterministic ==
    (/\ prev # <<>>
     /\ pc = "exited"
     /\ prev[1].argv = argv
     /\ prev[1].envLog = envLog)
    => /\ prev[1].stdout = stdout
       /\ prev[1].exitCode = exitCode

C8_Witness ==
    /\ prev # <<>>
    /\ Succeeded
    /\ prev[1].argv = argv
    /\ prev[1].envLog = envLog
    /\ prev[1].info = "en"
    /\ info = "ru"
    /\ \E i \in 1..Len(yielded) : yielded[i].start = 1
    /\ stdout = << <<"a", " ", "a">> >>

====
